---- MODULE Spec2Model ----
(***************************************************************************)
(* Model of ecourt_fetcher.py: the response parsers of ECourtsScraper      *)
(* (_parse_case_response, _parse_cause_list, _extract_court_name), the     *)
(* three query operations and the control flow of main.                    *)
(*                                                                         *)
(* Text is a sequence of one-character strings, so that strip, replace     *)
(* and strftime are computed character by character.  A document is the    *)
(* sequence, in document order, of its tables and headings; a table is its *)
(* class attribute (a list of class tokens) and its rows, a row is the     *)
(* sequence of the texts of its td cells (a row of th cells has none).     *)
(***************************************************************************)
EXTENDS Integers, Sequences, FiniteSets, TLC

VARIABLES html, identifiers, now, case_info,
          date, cause_list,
          args, pc, posts, result, cause_result, saved, exit_status, raised_in

vars == <<html, identifiers, now, case_info, date, cause_list,
          args, pc, posts, result, cause_result, saved, exit_status, raised_in>>

parserVars == <<html, identifiers, now, case_info, date, cause_list>>

mainVars == <<args, pc, posts, result, cause_result, saved, exit_status, raised_in>>

(***************************************************************************)
(* Bounds of the model.                                                    *)
(***************************************************************************)
MaxTables == 2
MaxRows == 3
MaxElems == 4

(***************************************************************************)
(* Python values.                                                          *)
(***************************************************************************)
\* None and an optional value: the empty sequence or a one-element sequence.
None == <<>>

Some(x) == <<x>>

\* dict[k] = v
Put(d, k, v) == [x \in (DOMAIN d) \cup {k} |-> IF x = k THEN v ELSE d[x]]

\* the dict without the keys ks
Without(d, ks) == [x \in (DOMAIN d) \ ks |-> d[x]]

\* dict.update(e)
Update(d, e) == [x \in (DOMAIN d) \cup (DOMAIN e) |-> IF x \in DOMAIN e THEN e[x] ELSE d[x]]

EmptyDict == [x \in {} |-> <<>>]

(***************************************************************************)
(* Text: str.strip, str.replace, strftime.                                 *)
(***************************************************************************)
Whitespace == {" ", "\t", "\n"}

RECURSIVE LStrip(_)
LStrip(t) == IF t # <<>> /\ Head(t) \in Whitespace THEN LStrip(Tail(t)) ELSE t

RECURSIVE RStrip(_)
RStrip(t) == IF t # <<>> /\ t[Len(t)] \in Whitespace
             THEN RStrip(SubSeq(t, 1, Len(t) - 1)) ELSE t

\* cell.get_text(strip=True) of a cell holding one text node
get_text(t) == LStrip(RStrip(t))

\* s.replace(c, '')
replace(t, c) == SelectSeq(t, LAMBDA x : x # c)

Digit(n) == <<"0", "1", "2", "3", "4", "5", "6", "7", "8", "9">>[n + 1]

Fmt2(n) == <<Digit((n \div 10) % 10), Digit(n % 10)>>

Fmt4(n) == <<Digit((n \div 1000) % 10), Digit((n \div 100) % 10)>> \o Fmt2(n % 100)

\* d.strftime('%d<sep>%m<sep>%Y')
strftime(d, sep) == Fmt2(d.day) \o <<sep>> \o Fmt2(d.month) \o <<sep>> \o Fmt4(d.year)

IsLeap(y) == (y % 4 = 0 /\ y % 100 # 0) \/ y % 400 = 0

DaysInMonth(y, m) == IF m = 2 THEN (IF IsLeap(y) THEN 29 ELSE 28)
                     ELSE IF m \in {4, 6, 9, 11} THEN 30 ELSE 31

\* d + timedelta(days=1)
AddDay(d) == IF d.day < DaysInMonth(d.year, d.month)
             THEN [d EXCEPT !.day = d.day + 1]
             ELSE IF d.month < 12
             THEN [d EXCEPT !.day = 1, !.month = d.month + 1]
             ELSE [year |-> d.year + 1, month |-> 1, day |-> 1]

(***************************************************************************)
(* Documents: BeautifulSoup find / find_all / find_previous.               *)
(***************************************************************************)
Table(cls, rows) == [tag |-> "table", class |-> cls, text |-> <<>>, rows |-> rows]

Heading(tag, text) == [tag |-> tag, class |-> <<>>, text |-> text, rows |-> <<>>]

\* class_=s: one of the element's class tokens is s, or the class tokens
\* joined by blanks spell s exactly (s is given as its list of tokens)
ClassMatches(cls, s) == (Len(s) = 1 /\ \E i \in 1..Len(cls) : cls[i] = s[1]) \/ cls = s

\* soup.find_all('table', class_=s): the indices of the matching tables
find_all(doc, s) == SelectSeq([i \in 1..Len(doc) |-> i],
                        LAMBDA i : doc[i].tag = "table" /\ ClassMatches(doc[i].class, s))

\* soup.find('table', class_=s): the first match, 0 for None
find(doc, s) == IF find_all(doc, s) = <<>> THEN 0 ELSE Head(find_all(doc, s))

\* element.find_previous(tag): the nearest earlier element with the tag, 0 for None
RECURSIVE find_previous(_, _, _)
find_previous(doc, i, tag) == IF i <= 1 THEN 0
                              ELSE IF doc[i - 1].tag = tag THEN i - 1
                              ELSE find_previous(doc, i - 1, tag)

(***************************************************************************)
(* _parse_case_response                                                    *)
(***************************************************************************)
MinCaseCells == 2

MinHearingCells == 3

\* a key that loses a final colon only
FieldKeyTrailingColon(cell) ==
    LET t == get_text(cell)
    IN IF t # <<>> /\ t[Len(t)] = ":" THEN SubSeq(t, 1, Len(t) - 1) ELSE t

\* the key of a row of the case-details table (line 73)
FieldKey(cell) == replace(get_text(cell), ":")

\* the loop over the rows of the case-details table (lines 70-76)
RECURSIVE CaseFields(_, _, _)
CaseFields(rows, i, info) ==
    IF i > Len(rows) THEN info
    ELSE LET cells == rows[i]
         IN IF Len(cells) >= MinCaseCells
            THEN LET key == FieldKey(cells[1])
                     value == get_text(cells[2])
                 IN IF key # <<>> /\ value # <<>>
                    THEN CaseFields(rows, i + 1, Put(info, key, value))
                    ELSE CaseFields(rows, i + 1, info)
            ELSE CaseFields(rows, i + 1, info)

\* rows that keep the header row
KeepHeader(rows) == rows

\* find_all('tr')[1:]
SkipHeader(rows) == IF rows = <<>> THEN <<>> ELSE Tail(rows)

\* the loop over the rows of the hearing table (lines 83-95)
RECURSIVE HearingLoop(_, _, _)
HearingLoop(rows, i, acc) ==
    IF i > Len(rows) THEN acc
    ELSE LET cells == rows[i]
         IN IF Len(cells) >= MinHearingCells
            THEN LET hearing_date == get_text(cells[1])
                     purpose == get_text(cells[2])
                     stage == get_text(cells[3])
                 IN IF hearing_date # <<>>
                    THEN HearingLoop(rows, i + 1,
                            Append(acc, [date |-> hearing_date, purpose |-> purpose, stage |-> stage]))
                    ELSE HearingLoop(rows, i + 1, acc)
            ELSE HearingLoop(rows, i + 1, acc)

\* lines 78-95
ExtractHearings(doc) ==
    LET hearing_table == find(doc, <<"table", "table-bordered">>)
    IN IF hearing_table # 0
       THEN HearingLoop(SkipHeader(doc[hearing_table].rows), 1, <<>>)
       ELSE <<>>

\* a loop that flags an entry dated tomorrow without taking it as next_hearing
RECURSIVE ClassifyFlagOnly(_, _, _, _, _)
ClassifyFlagOnly(hearings, i, today, tomorrow, st) ==
    IF i > Len(hearings) THEN st
    ELSE IF hearings[i].date = today
         THEN ClassifyFlagOnly(hearings, i + 1, today, tomorrow,
                       [st EXCEPT !.listed_today = TRUE, !.next_hearing = Some(hearings[i])])
         ELSE IF hearings[i].date = tomorrow
         THEN ClassifyFlagOnly(hearings, i + 1, today, tomorrow,
                       [st EXCEPT !.listed_tomorrow = TRUE])
         ELSE ClassifyFlagOnly(hearings, i + 1, today, tomorrow, st)

\* the loop over hearing_dates (lines 109-115)
RECURSIVE Classify(_, _, _, _, _)
Classify(hearings, i, today, tomorrow, st) ==
    IF i > Len(hearings) THEN st
    ELSE IF hearings[i].date = today
         THEN Classify(hearings, i + 1, today, tomorrow,
                       [st EXCEPT !.listed_today = TRUE, !.next_hearing = Some(hearings[i])])
         ELSE IF hearings[i].date = tomorrow
         THEN Classify(hearings, i + 1, today, tomorrow,
                       [st EXCEPT !.listed_tomorrow = TRUE, !.next_hearing = Some(hearings[i])])
         ELSE Classify(hearings, i + 1, today, tomorrow, st)

\* the keys the parser assigns itself (lines 97-107)
K_hearing_dates == <<"h","e","a","r","i","n","g","_","d","a","t","e","s">>

K_listed_today == <<"l","i","s","t","e","d","_","t","o","d","a","y">>

K_listed_tomorrow == <<"l","i","s","t","e","d","_","t","o","m","o","r","r","o","w">>

K_next_hearing == <<"n","e","x","t","_","h","e","a","r","i","n","g">>

K_serial_number == <<"s","e","r","i","a","l","_","n","u","m","b","e","r">>

K_court_name == <<"c","o","u","r","t","_","n","a","m","e">>

DerivedKeys == {K_hearing_dates, K_listed_today, K_listed_tomorrow,
                K_next_hearing, K_serial_number, K_court_name}

\* The returned dict.  fields holds its text-valued entries (the identifiers
\* and the label/value pairs); the six keys assigned in lines 97-107 are the
\* other components, and assigning them replaces a text entry of that name.
parse_case_response(doc, ids, clock) ==
    LET seeded == Update(EmptyDict, ids)
        case_details_table == find(doc, <<"table">>)
        withFields == IF case_details_table # 0
                      THEN CaseFields(doc[case_details_table].rows, 1, seeded)
                      ELSE seeded
        hearing_dates == ExtractHearings(doc)
        today == strftime(clock, "/")
        tomorrow == strftime(AddDay(clock), "/")
        st0 == [fields |-> Without(withFields, DerivedKeys),
                hearing_dates |-> hearing_dates,
                listed_today |-> FALSE,
                listed_tomorrow |-> FALSE,
                next_hearing |-> None,
                serial_number |-> None,
                court_name |-> None]
    IN Classify(hearing_dates, 1, today, tomorrow, st0)

(***************************************************************************)
(* Inputs of the parsers.                                                  *)
(***************************************************************************)
\* "01/01/2025" and "02/01/2025"
D1 == <<"0", "1", "/", "0", "1", "/", "2", "0", "2", "5">>

D2 == <<"0", "2", "/", "0", "1", "/", "2", "0", "2", "5">>

\* the reference dates: 2024-12-31 (D1 is tomorrow) and 2025-01-01 (D1 is
\* today and D2 tomorrow)
Nows == {[year |-> 2024, month |-> 12, day |-> 31], [year |-> 2025, month |-> 1, day |-> 1]}

\* rows of a hearing table: a header row of th cells, two rows dated D1 that
\* differ in their purpose, a row dated D2, a row with a blank date cell and a
\* row of two cells
HearingRowPool == {<<>>,
                   <<<<" ">> \o D1 \o <<"\n">>, <<"p">>, <<"s">>>>,
                   <<D1, <<"q">>, <<"s">>>>,
                   <<D2, <<" ", "p">>, <<"s">>>>,
                   <<<<" ">>, <<"p">>, <<"s">>>>,
                   <<D2, <<"q">>>>}

\* rows of a case-details table: a label with an inner and a final colon and
\* blanks around it, a label of colons only, a blank value, a row of one
\* cell, two rows that spell the same label, and a label that is also a key
\* the parser assigns itself
FieldRowPool == {<<<<" ", "a", ":", "b", " ", ":">>, <<" ", "v", " ">>>>,
                 <<<<":", ":">>, <<"v">>>>,
                 <<<<"k", ":">>, <<" ">>>>,
                 <<<<"k">>>>,
                 <<<<"k">>, <<"w">>, <<"s">>>>,
                 <<<<" ", "k", ":">>, <<"v">>>>,
                 <<<<"c","o","u","r","t","_","n","a","m","e",":">>, <<"v">>>>}

\* class attributes: "table", "table table-bordered", the same two classes in
\* the other order, and a class of its own
CaseClasses == {<<"table">>, <<"table", "table-bordered">>, <<"table-bordered", "table">>, <<"other">>}

FieldClasses == {<<"table">>, <<"table", "table-bordered">>, <<"other">>}

\* A document is drawn as its rows in document order, each marked with the
\* class attribute of the table it opens or with Cont when it continues the
\* table of the row before it.
Cont == <<>>

RECURSIVE Group(_, _, _, _)
Group(rows, marks, i, doc) ==
    IF i > Len(rows) THEN doc
    ELSE IF marks[i] = Cont
         THEN Group(rows, marks, i + 1, [doc EXCEPT ![Len(doc)].rows = Append(@, rows[i])])
         ELSE Group(rows, marks, i + 1, Append(doc, Table(marks[i], <<rows[i]>>)))

\* html is a document of at most MaxTables tables, each with a row, and at
\* most MaxRows rows in all
DrawDocument(pool, classes) ==
    \E k \in 0..MaxRows :
      \E rows \in [1..k -> pool], marks \in [1..k -> classes \cup {Cont}] :
        /\ k > 0 => marks[1] # Cont
        /\ Cardinality({i \in 1..k : marks[i] # Cont}) <= MaxTables
        /\ html = Group(rows, marks, 1, <<>>)

K_cnr_number == <<"c","n","r","_","n","u","m","b","e","r">>

K_case_number == <<"c","a","s","e","_","n","u","m","b","e","r">>

\* the keyword arguments of the two callers (lines 36 and 55)
CnrIdentifiers(cnr) == [k \in {K_cnr_number} |-> cnr]

NumberIdentifiers(case_type, case_number, case_year) ==
    [k \in {K_case_number} |-> case_type \o <<"/">> \o case_number \o <<"/">> \o case_year]

(***************************************************************************)
(* SpecCase: _parse_case_response applied to a document.                   *)
(***************************************************************************)
MainIdle == /\ args = None
            /\ pc = "idle"
            /\ posts = <<>>
            /\ result = None
            /\ cause_result = None
            /\ saved = <<>>
            /\ exit_status = None
            /\ raised_in = None

InitCase == /\ DrawDocument(HearingRowPool, CaseClasses)
            /\ identifiers \in {CnrIdentifiers(<<"X">>), NumberIdentifiers(<<"C">>, <<"7">>, <<"2", "5">>)}
            /\ now \in Nows
            /\ case_info = None
            /\ date = None
            /\ cause_list = None
            /\ MainIdle

ParseCaseResponse ==
    /\ case_info = None
    /\ case_info' = Some(parse_case_response(html, identifiers, now))
    /\ UNCHANGED <<html, identifiers, now, date, cause_list>>
    /\ UNCHANGED mainVars

NextCase == ParseCaseResponse

SpecCase == InitCase /\ [][NextCase]_vars

(***************************************************************************)
(* SpecFields: _parse_case_response applied to documents whose tables hold *)
(* label/value rows.                                                       *)
(***************************************************************************)
InitFields == /\ DrawDocument(FieldRowPool, FieldClasses)
              /\ identifiers \in {CnrIdentifiers(<<"X">>), NumberIdentifiers(<<"C">>, <<"7">>, <<"2", "5">>)}
              /\ now \in {[year |-> 2025, month |-> 1, day |-> 1]}
              /\ case_info = None
              /\ date = None
              /\ cause_list = None
              /\ MainIdle

SpecFields == InitFields /\ [][NextCase]_vars

(***************************************************************************)
(* Properties of _parse_case_response.  They are stated over the document  *)
(* and the returned record, without the operators of the parser.           *)
(***************************************************************************)
Info == case_info[1]

Parsed == case_info # None

Min(S) == CHOOSE x \in S : \A y \in S : x <= y

Max(S) == CHOOSE x \in S : \A y \in S : x >= y

\* the text without its leading and trailing whitespace
Trimmed(t) == LET solid == {i \in 1..Len(t) : t[i] \notin Whitespace}
              IN IF solid = {} THEN <<>> ELSE SubSeq(t, Min(solid), Max(solid))

\* the text without a final colon
NoTrailingColon(t) == IF t # <<>> /\ t[Len(t)] = ":" THEN SubSeq(t, 1, Len(t) - 1) ELSE t

\* the text without any colon
NoColon(t) == LET keep == {i \in 1..Len(t) : t[i] # ":"}
                  RECURSIVE Pick(_)
                  Pick(i) == IF i > Len(t) THEN <<>>
                             ELSE IF i \in keep THEN <<t[i]>> \o Pick(i + 1) ELSE Pick(i + 1)
              IN Pick(1)

TodayText == strftime(now, "/")

TomorrowText == strftime(AddDay(now), "/")

\* the indices of the entries of hearing_dates with the date d
Dated(d) == {i \in 1..Len(Info.hearing_dates) : Info.hearing_dates[i].date = d}

\* the tables whose class attribute is exactly "table table-bordered" (the
\* hearing-history table) and exactly "table" (the case-details table)
HearingTables == {i \in 1..Len(html) : html[i].tag = "table" /\ html[i].class = <<"table", "table-bordered">>}

DetailsTables == {i \in 1..Len(html) : html[i].tag = "table" /\ html[i].class = <<"table">>}

\* C1: the returned record never has both listed_today and listed_tomorrow
\* set, also when the hearings hold an entry dated today and one dated
\* tomorrow.
C1_MutuallyExclusive == Parsed => ~(Info.listed_today /\ Info.listed_tomorrow)

\* C2: when some hearing entry is dated today, listed_today is set and
\* next_hearing is an entry dated today, whatever entries dated tomorrow
\* surround it.
C2_TodayWins ==
    (Parsed /\ Dated(TodayText) # {}) =>
        /\ Info.listed_today
        /\ Info.next_hearing # None
        /\ Info.next_hearing[1].date = TodayText

\* C3: among several entries that carry the date of next_hearing, next_hearing
\* is the first in document order.
C3_FirstOfSameDate ==
    (Parsed /\ Info.next_hearing # None) =>
        Info.next_hearing[1] = Info.hearing_dates[Min(Dated(Info.next_hearing[1].date))]

\* C4: a document without a case-details table yields a record whose
\* label/value fields are exactly the supplied identifiers.
C4_NoDetailsTableNoFields ==
    (Parsed /\ DetailsTables = {}) => Info.fields = identifiers

\* the rows of the hearing-history table that the extraction keeps: the rows
\* after the first with at least 3 cells and a date that is not blank
KeptRows(rows) == {j \in 2..Len(rows) : Len(rows[j]) >= 3 /\ Trimmed(rows[j][1]) # <<>>}

\* the k-th smallest element of the set S of numbers
RECURSIVE Nth(_, _)
Nth(S, k) == IF k = 1 THEN Min(S) ELSE Nth(S \ {Min(S)}, k - 1)

ExpectedHearings ==
    IF HearingTables = {} THEN <<>>
    ELSE LET rows == html[Min(HearingTables)].rows
             kept == KeptRows(rows)
         IN [k \in 1..Cardinality(kept) |->
                [date |-> Trimmed(rows[Nth(kept, k)][1]),
                 purpose |-> Trimmed(rows[Nth(kept, k)][2]),
                 stage |-> Trimmed(rows[Nth(kept, k)][3])]]

\* C6: hearing_dates is, in document order, the rows after the first row of
\* the hearing-history table that have at least 3 cells and a date cell that is
\* not blank, each as (date, purpose, stage) of the trimmed cells 0-2; it is
\* empty when the table is missing.
C6_HearingDates == Parsed => Info.hearing_dates = ExpectedHearings

\* a kept row whose date cell had blanks around it, a row dropped for its blank
\* date, and a first row that would have been kept had it not been skipped
C6_Witness ==
    /\ Parsed
    /\ HearingTables # {}
    /\ LET rows == html[Min(HearingTables)].rows
       IN /\ Len(rows) >= 3
          /\ Len(rows[1]) >= 3 /\ Trimmed(rows[1][1]) # <<>>
          /\ Len(Info.hearing_dates) = 1
          /\ \E j \in 2..Len(rows) : Len(rows[j]) >= 3 /\ Trimmed(rows[j][1]) = <<>>
          /\ \E j \in 2..Len(rows) : Len(rows[j]) >= 3 /\ rows[j][1] # Info.hearing_dates[1].date
                                                       /\ Trimmed(rows[j][1]) = Info.hearing_dates[1].date

\* C10: next_hearing is set exactly when listed_today or listed_tomorrow is;
\* when set it is an entry of hearing_dates dated today or tomorrow; when no
\* entry is dated today or tomorrow the result is false / false / None.
C10_NextHearing ==
    Parsed =>
        /\ (Info.next_hearing # None) <=> (Info.listed_today \/ Info.listed_tomorrow)
        /\ Info.next_hearing # None =>
              /\ \E i \in 1..Len(Info.hearing_dates) : Info.hearing_dates[i] = Info.next_hearing[1]
              /\ Info.next_hearing[1].date \in {TodayText, TomorrowText}
        /\ (Dated(TodayText) \cup Dated(TomorrowText) = {}) =>
              /\ ~Info.listed_today
              /\ ~Info.listed_tomorrow
              /\ Info.next_hearing = None

\* listed tomorrow only, with an entry that matches neither date
C10_Witness ==
    /\ Parsed
    /\ Info.listed_tomorrow /\ ~Info.listed_today
    /\ Info.next_hearing # None
    /\ Info.next_hearing[1].date = D1
    /\ \E i \in 1..Len(Info.hearing_dates) : Info.hearing_dates[i].date = D2

\* nothing listed although hearings were extracted
C10_WitnessNone ==
    /\ Parsed
    /\ Len(Info.hearing_dates) >= 1
    /\ Info.next_hearing = None

\* the table the parser reads the label/value fields from: the first table
\* with the class token "table", whatever its other class tokens
FieldTables == {i \in 1..Len(html) : html[i].tag = "table" /\ \E k \in 1..Len(html[i].class) : html[i].class[k] = "table"}

FieldRows == IF FieldTables = {} THEN <<>> ELSE html[Min(FieldTables)].rows

\* the rows that contribute a field when the label is made by Label
Contributing(Label(_)) ==
    {j \in 1..Len(FieldRows) : /\ Len(FieldRows[j]) >= 2
                               /\ Label(FieldRows[j][1]) # <<>>
                               /\ Trimmed(FieldRows[j][2]) # <<>>}

LabelTrailing(cell) == NoTrailingColon(Trimmed(cell))

LabelNoColon(cell) == NoColon(Trimmed(cell))

\* the text-valued entries the record must hold when the label is made by
\* Label: the identifiers, then every contributing row in document order, a
\* later row replacing an earlier one of the same label, without the keys the
\* parser assigns itself afterwards
ExpectedFields(Label(_)) ==
    LET rows == Contributing(Label)
        labels == {Label(FieldRows[j][1]) : j \in rows}
        keys == ((DOMAIN identifiers) \cup labels) \ DerivedKeys
    IN [k \in keys |->
          IF k \in labels
          THEN Trimmed(FieldRows[Max({j \in rows : Label(FieldRows[j][1]) = k})][2])
          ELSE identifiers[k]]

\* C9 as stated: the label is the trimmed text of cell 1 without a final
\* colon, inner colons kept; the value is the trimmed text of cell 2; a row is
\* skipped exactly when that label or the value is empty; rows of fewer than
\* two cells add nothing.
C9_TrailingColonOnly == Parsed => Info.fields = ExpectedFields(LabelTrailing)

\* C9 as amended: the label is the trimmed text of cell 1 without any of its
\* colons (not trimmed again); the value is the trimmed text of cell 2; a row
\* is skipped exactly when that label or the value is empty; rows of fewer
\* than two cells add nothing; a later row of the same label and the keys the
\* parser assigns itself replace an entry.
C9_EveryColonRemoved == Parsed => Info.fields = ExpectedFields(LabelNoColon)

\* a stored label that lost an inner colon and kept the blank before its final
\* colon, next to a row skipped for its blank value
C9_Witness ==
    /\ Parsed
    /\ <<"a", "b", " ">> \in DOMAIN Info.fields
    /\ Info.fields[<<"a", "b", " ">>] = <<"v">>
    /\ \E j \in 1..Len(FieldRows) : Len(FieldRows[j]) >= 2 /\ Trimmed(FieldRows[j][2]) = <<>>

(***************************************************************************)
(* _parse_cause_list and _extract_court_name                               *)
(***************************************************************************)
MinCauseCells == 4

UnknownCourt == <<"U","n","k","n","o","w","n"," ","C","o","u","r","t">>

\* lines 163-169: find_previous('h3') or find_previous('h4'); a Tag is true
\* whatever its content
extract_court_name(doc, table_element) ==
    LET h3 == find_previous(doc, table_element, "h3")
        prev_element == IF h3 # 0 THEN h3 ELSE find_previous(doc, table_element, "h4")
    IN IF prev_element # 0 THEN get_text(doc[prev_element].text) ELSE UnknownCourt

\* the loop over the rows of one table (lines 148-159)
RECURSIVE CauseRows(_, _, _, _, _, _)
CauseRows(doc, table_element, rows, i, d, acc) ==
    IF i > Len(rows) THEN acc
    ELSE LET cells == rows[i]
         IN IF Len(cells) >= MinCauseCells
            THEN CauseRows(doc, table_element, rows, i + 1, d,
                     Append(acc, [date |-> d,
                                  serial_number |-> get_text(cells[1]),
                                  case_number |-> get_text(cells[2]),
                                  parties |-> get_text(cells[3]),
                                  purpose |-> get_text(cells[4]),
                                  court_name |-> extract_court_name(doc, table_element)]))
            ELSE CauseRows(doc, table_element, rows, i + 1, d, acc)

\* the loop over the tables (lines 144-146)
RECURSIVE CauseTables(_, _, _, _, _)
CauseTables(doc, tables, k, d, acc) ==
    IF k > Len(tables) THEN acc
    ELSE CauseTables(doc, tables, k + 1, d,
             CauseRows(doc, tables[k], SkipHeader(doc[tables[k]].rows), 1, d, acc))

parse_cause_list(doc, d) == CauseTables(doc, find_all(doc, <<"table">>), 1, d, <<>>)

(***************************************************************************)
(* SpecCause: _parse_cause_list applied to a document of headings and      *)
(* tables.                                                                 *)
(***************************************************************************)
CauseRow(serial) == <<<<serial>>, <<" ", "n">>, <<"x", " ", "y">>, <<"p", "\n">>>>

\* headings of level 2, 3 and 4 and three tables: a header row of th cells
\* and an entry; a first row with 4 cells, a row of 3 cells and an entry of 5
\* cells; and a table that is not of class "table"
ElementPool == {Heading("h3", <<"A">>),
                Heading("h3", <<" ", "C">>),
                Heading("h4", <<"B">>),
                Heading("h2", <<"Z">>),
                Table(<<"table">>, <<<<>>, CauseRow("1")>>),
                Table(<<"table", "table-bordered">>,
                      <<CauseRow("2"), <<<<"3">>, <<"n">>, <<"x">>>>, CauseRow("4") \o <<<<"r">>>>>>),
                Table(<<"other">>, <<<<>>, CauseRow("5")>>)}

InitCause == /\ \E k \in 0..MaxElems : html \in [1..k -> ElementPool]
             /\ now \in Nows
             /\ date \in {None, Some(strftime(AddDay(now), "-"))}
             /\ cause_list = None
             /\ identifiers = EmptyDict
             /\ case_info = None
             /\ MainIdle

\* lines 121-122 and 135, with the response in hand
ParseCauseList ==
    /\ cause_list = None
    /\ cause_list' = Some(parse_cause_list(html,
                              IF date = None THEN strftime(now, "-") ELSE date[1]))
    /\ UNCHANGED <<html, identifiers, now, case_info, date>>
    /\ UNCHANGED mainVars

NextCause == ParseCauseList

SpecCause == InitCause /\ [][NextCause]_vars

\* the tables of the cause list: those with the class token "table"
CauseListTables == {i \in 1..Len(html) : html[i].tag = "table" /\ \E k \in 1..Len(html[i].class) : html[i].class[k] = "table"}

\* the headings of level 3 or 4 before element i
HeadingsBefore(i) == {j \in 1..(i - 1) : html[j].tag \in {"h3", "h4"}}

\* the court name by the nearest heading of level 3 or 4 before table i
NearestHeading(i) == IF HeadingsBefore(i) = {} THEN UnknownCourt
                     ELSE Trimmed(html[Max(HeadingsBefore(i))].text)

\* the entries of table i: its rows after the first with at least 4 cells
EntryRows(i) == {j \in 2..Len(html[i].rows) : Len(html[i].rows[j]) >= 4}

\* the court names of the entries in document order, table by table
RECURSIVE CourtsFrom(_)
CourtsFrom(tables) ==
    IF tables = {} THEN <<>>
    ELSE LET i == Min(tables)
         IN [k \in 1..Cardinality(EntryRows(i)) |-> NearestHeading(i)] \o CourtsFrom(tables \ {i})

\* C5: every entry's court_name is the text of the nearest heading of level 3
\* or 4 before its own table, whichever level is closer, and "Unknown Court"
\* only when there is none; no entry takes the heading of another table.
C5_NearestHeading ==
    cause_list # None =>
        [k \in 1..Len(cause_list[1]) |-> cause_list[1][k].court_name]
            = CourtsFrom(CauseListTables)

(***************************************************************************)
(* The query operations and main.                                          *)
(***************************************************************************)
\* bool(x) of an optional text: None and '' are false
Truthy(x) == x # None /\ x[1] # <<>>

\* what a POST brings: an exception of the transport, or a response text
NoResponse == [ok |-> FALSE, text |-> <<>>]

Response(doc) == [ok |-> TRUE, text |-> doc]

\* The outcome of a call as its caller sees it: an exception, or a returned
\* value.  A returned dict is its 'error' entry and, without one, the record
\* of the parser; a returned cause list likewise.
Raised == [raised |-> TRUE, error |-> FALSE, value |-> None]

ReturnedError == [raised |-> FALSE, error |-> TRUE, value |-> None]

Returned(v) == [raised |-> FALSE, error |-> FALSE, value |-> Some(v)]

\* a query operation that lets the exception of the transport through
LetThrough(net, ids, clock) ==
    IF net.ok THEN Returned(parse_case_response(net.text, ids, clock)) ELSE Raised

\* the try/except of get_case_details_by_cnr and get_case_details_by_number
\* around the POST and the parse (lines 28-38 and 42-57)
CaseQuery(net, ids, clock) ==
    IF net.ok THEN Returned(parse_case_response(net.text, ids, clock)) ELSE ReturnedError

get_case_details_by_cnr(net, cnr_number, clock) ==
    CaseQuery(net, CnrIdentifiers(cnr_number), clock)

get_case_details_by_number(net, case_type, case_number, case_year, clock) ==
    CaseQuery(net, NumberIdentifiers(case_type, case_number, case_year), clock)

\* lines 119-137
download_cause_list(net, d, clock) ==
    LET d2 == IF ~Truthy(d) THEN strftime(clock, "-") ELSE d[1]
    IN IF net.ok THEN Returned(parse_cause_list(net.text, d2)) ELSE ReturnedError

\* validation that forgets what --causelist requires
UsageErrorWithoutCauseListCheck(a) ==
    \/ ~(Truthy(a.cnr) \/ Truthy(a.case_type) \/ a.causelist)
    \/ /\ Truthy(a.case_type)
       /\ ~(/\ Truthy(a.case_number) /\ Truthy(a.case_year) /\ Truthy(a.state_code)
            /\ Truthy(a.dist_code) /\ Truthy(a.court_code))

\* lines 251-258: one of the three parser.error calls is reached
UsageError(a) ==
    \/ ~(Truthy(a.cnr) \/ Truthy(a.case_type) \/ a.causelist)
    \/ /\ Truthy(a.case_type)
       /\ ~(/\ Truthy(a.case_number) /\ Truthy(a.case_year) /\ Truthy(a.state_code)
            /\ Truthy(a.dist_code) /\ Truthy(a.court_code))
    \/ /\ a.causelist
       /\ ~(Truthy(a.state_code) /\ Truthy(a.dist_code) /\ Truthy(a.court_code))

\* argparse's exit status of parser.error
UsageExitStatus == 2

\* an optional argument: absent, given as '', given as a text
ArgValues == {None, Some(<<>>), Some(<<"X">>)}

ArgSpace == [cnr : ArgValues, case_type : ArgValues, case_number : ArgValues,
             case_year : ArgValues, state_code : ArgValues, dist_code : ArgValues,
             court_code : ArgValues,
             today : BOOLEAN, tomorrow : BOOLEAN, causelist : BOOLEAN,
             output : {None, Some(<<"o">>)}, format : {"json", "text"}]

\* the responses of the portal: an empty page, and a page with a hearing
\* table that lists D1
MainResponses == {<<>>, <<Table(<<"table", "table-bordered">>, <<<<>>, <<D1, <<"p">>, <<"s">>>>>>)>>}

CauseResponses == {<<>>, <<Heading("h3", <<"A">>), Table(<<"table">>, <<<<>>, CauseRow("1")>>)>>}

Nets(docs) == {NoResponse} \cup {Response(d) : d \in docs}

InitMain == /\ args \in {Some(a) : a \in ArgSpace}
            /\ pc = "start"
            /\ posts = <<>>
            /\ result = None
            /\ cause_result = None
            /\ saved = <<>>
            /\ exit_status = None
            /\ raised_in = None
            /\ now \in Nows
            /\ html = <<>>
            /\ identifiers = EmptyDict
            /\ case_info = None
            /\ date = None
            /\ cause_list = None

A == args[1]

\* where the try block goes after the case lookup, if any (line 293)
AfterCase == IF A.causelist THEN "causelist" ELSE "done"

\* lines 262 and 276
FirstStep == IF Truthy(A.cnr) THEN "cnr"
             ELSE IF Truthy(A.case_type) THEN "number"
             ELSE AfterCase

\* lines 323-325: main catches the exception raised in step
Fail(step) == /\ pc' = "failed"
              /\ exit_status' = Some(1)
              /\ raised_in' = Some(step)

\* lines 250-258
Validate ==
    /\ pc = "start"
    /\ IF UsageError(A)
       THEN pc' = "usage_error" /\ exit_status' = Some(UsageExitStatus)
       ELSE pc' = FirstStep /\ UNCHANGED exit_status
    /\ UNCHANGED <<args, posts, result, cause_result, saved, raised_in>>
    /\ UNCHANGED parserVars

\* line 264
CnrLookup ==
    /\ pc = "cnr"
    /\ \E net \in Nets(MainResponses) :
         LET out == get_case_details_by_cnr(net, A.cnr[1], now)
         IN /\ posts' = Append(posts, [op |-> "cnr", ok |-> net.ok])
            /\ IF out.raised
               THEN Fail("cnr") /\ UNCHANGED result
               ELSE /\ result' = Some(out)
                    /\ pc' = "print_case"
                    /\ UNCHANGED <<exit_status, raised_in>>
    /\ UNCHANGED <<args, cause_result, saved>>
    /\ UNCHANGED parserVars

\* lines 278-281
NumberLookup ==
    /\ pc = "number"
    /\ \E net \in Nets(MainResponses) :
         LET out == get_case_details_by_number(net, A.case_type[1], A.case_number[1],
                                               A.case_year[1], now)
         IN /\ posts' = Append(posts, [op |-> "number", ok |-> net.ok])
            /\ IF out.raised
               THEN Fail("number") /\ UNCHANGED result
               ELSE /\ result' = Some(out)
                    /\ pc' = "print_case"
                    /\ UNCHANGED <<exit_status, raised_in>>
    /\ UNCHANGED <<args, cause_result, saved>>
    /\ UNCHANGED parserVars

\* lines 265-267 and 282-284: print_case_info, then the test of args.output;
\* or print raises (a closed stdout, a console that cannot encode the status
\* line)
PrintCaseInfo ==
    /\ pc = "print_case"
    /\ \/ /\ pc' = IF Truthy(A.output) THEN "save_case" ELSE AfterCase
          /\ UNCHANGED <<exit_status, raised_in>>
       \/ Fail("print_case")
    /\ UNCHANGED <<args, posts, result, cause_result, saved>>
    /\ UNCHANGED parserVars

\* lines 268-273 and 285-290: the file is written, or open/write raises
SaveCase ==
    /\ pc = "save_case"
    /\ \/ /\ saved' = Append(saved, [name |-> A.output[1], suffix |-> "", format |-> A.format,
                                     error |-> result[1].error])
          /\ pc' = AfterCase
          /\ UNCHANGED <<exit_status, raised_in>>
       \/ Fail("save_case") /\ UNCHANGED saved
    /\ UNCHANGED <<args, posts, result, cause_result>>
    /\ UNCHANGED parserVars

\* lines 294-301
CauseListDownload ==
    /\ pc = "causelist"
    /\ \E net \in Nets(CauseResponses) :
         LET d == IF A.today THEN Some(strftime(now, "-"))
                  ELSE IF A.tomorrow THEN Some(strftime(AddDay(now), "-"))
                  ELSE None
             out == download_cause_list(net, d, now)
         IN /\ posts' = Append(posts, [op |-> "causelist", ok |-> net.ok])
            /\ IF out.raised
               THEN Fail("causelist") /\ UNCHANGED cause_result
               ELSE /\ cause_result' = Some(out)
                    /\ pc' = "print_cause"
                    /\ UNCHANGED <<exit_status, raised_in>>
    /\ UNCHANGED <<args, result, saved>>
    /\ UNCHANGED parserVars

\* lines 303-312: the error or the first cases are printed, an error result
\* is not saved; or print raises
PrintCauseList ==
    /\ pc = "print_cause"
    /\ \/ /\ pc' = IF ~cause_result[1].error /\ Truthy(A.output) THEN "save_cause" ELSE "done"
          /\ UNCHANGED <<exit_status, raised_in>>
       \/ Fail("print_cause")
    /\ UNCHANGED <<args, posts, result, cause_result, saved>>
    /\ UNCHANGED parserVars

\* lines 313-318
SaveCauseList ==
    /\ pc = "save_cause"
    /\ \/ /\ saved' = Append(saved, [name |-> A.output[1], suffix |-> "_causelist",
                                     format |-> A.format, error |-> FALSE])
          /\ pc' = "done"
          /\ UNCHANGED <<exit_status, raised_in>>
       \/ Fail("save_cause") /\ UNCHANGED saved
    /\ UNCHANGED <<args, posts, result, cause_result>>
    /\ UNCHANGED parserVars

\* main returns and the interpreter exits
Finish ==
    /\ pc = "done"
    /\ pc' = "exited"
    /\ exit_status' = Some(0)
    /\ UNCHANGED <<args, posts, result, cause_result, saved, raised_in>>
    /\ UNCHANGED parserVars

\* lines 320-322: KeyboardInterrupt anywhere in the try block; it is no
\* Exception, so the query operations let it through
Interrupt ==
    /\ pc \in {"cnr", "number", "print_case", "save_case", "causelist", "print_cause", "save_cause"}
    /\ pc' = "interrupted"
    /\ exit_status' = Some(1)
    /\ UNCHANGED <<args, posts, result, cause_result, saved, raised_in>>
    /\ UNCHANGED parserVars

NextMain == \/ Validate
            \/ CnrLookup
            \/ NumberLookup
            \/ PrintCaseInfo
            \/ SaveCase
            \/ CauseListDownload
            \/ PrintCauseList
            \/ SaveCauseList
            \/ Finish
            \/ Interrupt

SpecMain == InitMain /\ [][NextMain]_vars

(***************************************************************************)
(* Properties of main.                                                     *)
(***************************************************************************)
Started == args # None

\* an argument that was not given at all
NotGiven(x) == x = None

\* an argument that was not given, or given as the empty text
Absent(x) == x = None \/ x = Some(<<>>)

\* the argument combinations of C7, for a given reading of "missing"
Incomplete(a, Missing(_)) ==
    \/ Missing(a.cnr) /\ Missing(a.case_type) /\ ~a.causelist
    \/ /\ ~Missing(a.case_type)
       /\ \/ Missing(a.case_number) \/ Missing(a.case_year) \/ Missing(a.state_code)
          \/ Missing(a.dist_code) \/ Missing(a.court_code)
    \/ /\ a.causelist
       /\ Missing(a.state_code) \/ Missing(a.dist_code) \/ Missing(a.court_code)

\* the run makes no POST, and once validated it has ended with a usage error
\* and a nonzero exit status
EndsInUsageError ==
    /\ posts = <<>>
    /\ pc # "start" => /\ pc = "usage_error"
                       /\ exit_status # None
                       /\ exit_status[1] # 0

\* C7 as stated: with no selector given, or --case-type given without all of
\* case number, year, state, district and court code, or --causelist given
\* without all of state, district and court code, main ends with a usage
\* error and a nonzero exit status before any POST.
C7_UsageErrorWhenGiven == (Started /\ Incomplete(A, NotGiven)) => EndsInUsageError

\* C7 as amended: the same, an argument given with an empty value counting as
\* not given.
C7_UsageErrorWhenNonEmpty == (Started /\ Incomplete(A, Absent)) => EndsInUsageError

\* --causelist with a CNR but without a state code: usage error, no POST
C7_Witness ==
    /\ Started
    /\ pc = "usage_error"
    /\ exit_status = Some(2)
    /\ A.causelist /\ A.cnr = Some(<<"X">>) /\ A.case_type = None /\ A.state_code = None
    /\ posts = <<>>

QueryOps == {"cnr", "number", "causelist"}

\* C8: a POST that fails makes its query operation return an error object,
\* after that one attempt and without an exception reaching main; the exit
\* status is nonzero only after a usage error, an interruption or an exception
\* raised outside the query operations (while printing or saving), and it is
\* zero when main returns.
C8_TransportFailure ==
    /\ \A i \in 1..Len(posts) :
          ~posts[i].ok =>
             /\ raised_in = None \/ raised_in[1] \notin QueryOps
             /\ posts[i].op \in {"cnr", "number"} => (result # None /\ result[1].error)
             /\ posts[i].op = "causelist" => (cause_result # None /\ cause_result[1].error)
    /\ \A op \in QueryOps : Cardinality({i \in 1..Len(posts) : posts[i].op = op}) <= 1
    /\ (exit_status # None /\ exit_status[1] # 0) =>
          \/ pc \in {"usage_error", "interrupted"}
          \/ pc = "failed" /\ raised_in # None /\ raised_in[1] \notin QueryOps
    /\ pc = "exited" => exit_status = Some(0)

\* the CNR lookup and the cause-list download both failed, the error object of
\* the lookup was written to the output file, and the process exited with 0
C8_Witness ==
    /\ pc = "exited"
    /\ exit_status = Some(0)
    /\ Len(posts) = 2
    /\ ~posts[1].ok /\ ~posts[2].ok
    /\ Len(saved) = 1 /\ saved[1].error

====
